---- MODULE Spec2Model ----
(***************************************************************************)
(* Service layer of the event backend (backend/services, backend/          *)
(* repositories, backend/models) as a state machine over the document      *)
(* store.  One action per service method; every method runs to completion  *)
(* before the next one starts (non-overlapping requests).                  *)
(*                                                                         *)
(* A stored document is a record of the fields the entity classes read;    *)
(* its "_id" is the key under which the collection holds it.  Fields the   *)
(* properties below do not read (title, content, names, created_at of      *)
(* posts, updated_at) are left out of the documents.  Time is counted in   *)
(* hours.  An e-mail address is the sequence of its characters; the value  *)
(* of an Optional[str] or Optional[List[str]] field is None, Str(s) or     *)
(* List(l).                                                                *)
(***************************************************************************)
EXTENDS Integers, FiniteSets, Sequences, TLC

VARIABLES
    now,          \* datetime.utcnow(), in hours
    users,        \* collection "users":       _id -> document
    posts,        \* collection "posts":       _id -> document
    likes,        \* collection "likes":       _id -> document
    comments,     \* collection "comments":    _id -> document
    stories,      \* collection "stories":     _id -> document
    story_views,  \* collection "story_views": _id -> document
    next_id,      \* per collection, the next _id the driver generates
    resp,         \* the outcome of the last service call
    inflight      \* the requests being served, each at its next await

vars == <<now, users, posts, likes, comments, stories, story_views, next_id, resp,
          inflight>>

store == <<users, posts, likes, comments, stories, story_views, next_id>>

----------------------------------------------------------------------------
(* Bounds of the model *)

MaxPosts == 2
MaxLikes == 2
MaxComments == 1
MaxStories == 2
MaxViews == 2
MaxTime == 36
MaxUsers == 2

\* The clock is advanced by these amounts (hours)
TickSteps == {12, 24}

(* Program constants *)

\* models/story.py: expires_at = utcnow() + timedelta(hours=24)
StoryTTLHours == 24
\* default `limit` of find_by_filter / get_by_post
FindLimit == 100
\* default `limit` of get_posts / get_active_stories / get_stories_by_author
ListLimit == 20

\* HTTP status codes raised by the services
OK == 200
BAD_REQUEST == 400
UNAUTHORIZED == 401
FORBIDDEN == 403
NOT_FOUND == 404
GONE == 410
INTERNAL_SERVER_ERROR == 500

----------------------------------------------------------------------------
(* Values *)

\* Python's None
None == [none |-> TRUE]

\* The values of an Optional[str] and of an Optional[List[str]] that are not None
Str(s) == [str |-> s]
List(l) == [list |-> l]

\* pydantic's ValidationError, raised by an entity class
ValidationError == [error |-> "ValidationError"]

\* bson.ObjectId(hex): how the driver hands out an "_id"
ObjectId(hex) == [type |-> "ObjectId", hex |-> hex]

\* UserRole
ORGANIZER == "organizer"
PARTICIPANT == "participant"

\* The users that send requests, and the subject ids a request can carry
\* ("ghost" is a well-formed id of no stored user)
UserIds == {"o1", "p1", "p2"}
Subjects == UserIds \cup {"ghost"}

\* A second organizer, stored from start-up on
OtherOrganizer == "o2"
Callers == Subjects \cup {OtherOrganizer}

\* The _id the driver generates for the n-th user registered after start-up
NewUserId(n) == <<"u1", "u2", "u3">>[n]

PostIds == 1..MaxPosts
StoryIds == 1..MaxStories

\* PostUpdate / StoryUpdate: the fields a request provides (is_active, or none)
PostUpdate == {[k \in f |-> v] : f \in SUBSET {"is_active"}, v \in BOOLEAN}
StoryUpdate == {[k \in f |-> v] : f \in SUBSET {"is_active"}, v \in BOOLEAN}

Min(a, b) == IF a <= b THEN a ELSE b

----------------------------------------------------------------------------
(* models *)

\* Variant of can_create_posts that looks at the role only
can_create_posts_by_role(user) == user.role = ORGANIZER

\* User.can_create_posts
can_create_posts(user) == user.role = ORGANIZER /\ user.is_active

\* Variant of can_interact_with_posts that looks at the role only
can_interact_with_posts_by_role(user) == user.role = PARTICIPANT

\* User.can_interact_with_posts
can_interact_with_posts(user) == user.role = PARTICIPANT /\ user.is_active

\* str.lower(), on the letters the requests of the model are written with
lower_char(c) ==
    IF c = "A" THEN "a" ELSE IF c = "P" THEN "p" ELSE IF c = "X" THEN "x" ELSE c

lower(s) == [i \in DOMAIN s |-> lower_char(s[i])]

\* EmailStr (UserCreate.email, UserLogin.email, User.email): the validated
\* address keeps its local part and has its domain in lower case
EmailStr(v) ==
    LET at == CHOOSE i \in DOMAIN v : v[i] = "@"
    IN  [i \in DOMAIN v |-> IF i > at THEN lower_char(v[i]) ELSE v[i]]

\* User.validate_email: return v.lower()
validate_email(v) == lower(v)

\* The fields of UserUpdate
UserUpdateFields == {"full_name", "bio", "allergies", "profile_image_url", "fcm_token"}

\* The value a profile update writes to each field it provides
NewValue ==
    [full_name |-> Str("Zoe"), bio |-> Str("bio"), allergies |-> List(<<"nuts">>),
     profile_image_url |-> Str("url"), fcm_token |-> Str("token-2")]

\* UserUpdate: every field is None unless the request provides it
UserUpdate ==
    {[f \in UserUpdateFields |-> IF f \in given THEN NewValue[f] ELSE None] :
        given \in SUBSET UserUpdateFields}

\* The addresses and passwords of the register and login requests
Emails == {<<l, "@", d>> : l \in {"a", "A", "b", "p", "P"}, d \in {"x", "X"}}
Passwords == {"pw1", "pw2"}

\* PyObjectId.__get_pydantic_core_schema__: the value is validated as a string
\* first (core_schema.str_schema()), so a bson ObjectId instance is refused.
PyObjectId(v) == IF v.type = "str" THEN ObjectId(v.hex) ELSE ValidationError

\* entity_class(**document): BaseEntity.id is a PyObjectId with alias "_id";
\* the result is the entity, or ValidationError when a field is refused.
Entity(document) ==
    IF PyObjectId(document.id) = ValidationError
    THEN ValidationError
    ELSE [document EXCEPT !.id = PyObjectId(@)]

----------------------------------------------------------------------------
(* utils/auth.py *)

\* PasswordManager.hash_password: the bcrypt hash of the password
hash_password(password) == [bcrypt |-> password]

\* Variant of verify_password that accepts every password
verify_password_any(plain_password, hashed_password) == TRUE

\* PasswordManager.verify_password
verify_password(plain_password, hashed_password) ==
    hashed_password = hash_password(plain_password)

\* AuthService.create_access_token: the claims the signed token carries
create_access_token(user_id, email, role) ==
    [sub |-> user_id, email |-> email, role |-> role]

----------------------------------------------------------------------------
(* repositories/base.py *)

\* BaseRepository._convert_document: every ObjectId value becomes its string
convert_document(document) ==
    [document EXCEPT !.id = IF @.type = "ObjectId" THEN [type |-> "str", hex |-> @.hex] ELSE @]

\* The document the driver returns for the stored document `_id` of `coll`:
\* its "_id" is a bson ObjectId
Document(coll, _id) == [id |-> ObjectId(_id), doc |-> coll[_id]]

\* collection.find(filter): the _ids of the documents whose fields equal `filter`
find(coll, filter) ==
    {i \in DOMAIN coll : \A k \in DOMAIN filter : coll[i][k] = filter[k]}

\* collection.find_one(filter): the first match in insertion order, or None
find_one(coll, filter) ==
    LET found == find(coll, filter)
    IN  IF found = {} THEN None
        ELSE Document(coll, CHOOSE i \in found : \A j \in found : i <= j)

\* BaseRepository.get_by_id: the entity, or None
get_by_id(coll, entity_id) ==
    IF entity_id \notin DOMAIN coll THEN None
    ELSE LET entity == Entity(convert_document(Document(coll, entity_id)))
         IN  IF entity = ValidationError THEN None ELSE entity

\* BaseRepository.find_by_filter: the number of entities it returns
\* (cursor.skip(0).limit(limit))
find_by_filter_len(coll, filter, limit) ==
    Min(Cardinality(find(coll, filter)), limit)

\* BaseRepository.create: insert_one under the _id the driver generates
create(coll, _id, entity) == (_id :> entity) @@ coll

\* BaseRepository.delete: the collection after delete_one({"_id": entity_id})
delete(coll, entity_id) ==
    [i \in DOMAIN coll \ {entity_id} |-> coll[i]]

\* The keys of update_data that are update operators, not field names
operator_keys(update_data) == {k \in DOMAIN update_data : k = "$inc"}

\* {"$set": update_data} applied to one document: each key of update_data is
\* written as a field of that name (the documents of the model keep only the
\* fields the entities read, so a field of another name leaves them as they are)
set_fields(document, update_data) ==
    [k \in DOMAIN document |->
        IF k \in DOMAIN update_data THEN update_data[k] ELSE document[k]]

\* BaseRepository.update: update_one({"_id": id}, {"$set": update_data}).
\* The set of collections it can leave: a "$"-prefixed key inside "$set" is
\* either refused by the server (the error is swallowed, nothing is written)
\* or written as a field of that literal name.
update(coll, entity_id, update_data) ==
    IF entity_id \notin DOMAIN coll THEN {coll}
    ELSE LET written == [coll EXCEPT ![entity_id] = set_fields(@, update_data)]
         IN  IF operator_keys(update_data) # {} THEN {coll, written} ELSE {written}

----------------------------------------------------------------------------
(* repositories/post_repository.py *)

\* PostRepository.increment_likes_count
increment_likes_count(post_id) ==
    update(posts, post_id, "$inc" :> [likes_count |-> 1])

\* PostRepository.decrement_likes_count
decrement_likes_count(post_id) ==
    update(posts, post_id, "$inc" :> [likes_count |-> -1])

\* PostRepository.increment_comments_count
increment_comments_count(post_id) ==
    update(posts, post_id, "$inc" :> [comments_count |-> 1])

\* PostRepository.get_active_posts: the _ids returned, newest first, at most limit
get_active_posts(limit) ==
    LET active == find(posts, [is_active |-> TRUE])
    IN  {i \in active : Cardinality({j \in active : j > i}) < limit}

\* LikeRepository.get_by_post / CommentRepository.get_by_post: len(...) of the result
get_by_post_len(coll, post_id) ==
    find_by_filter_len(coll, [post_id |-> post_id], FindLimit)

\* LikeRepository.get_like_by_user_and_post: Like(**document) on the document
\* as the driver returned it
get_like_by_user_and_post(user_id, post_id) ==
    LET document == find_one(likes, [user_id |-> user_id, post_id |-> post_id])
    IN  IF document = None THEN None
        ELSE LET like == Entity(document)
             IN  IF like = ValidationError THEN None ELSE like

----------------------------------------------------------------------------
(* repositories/user_repository.py *)

\* The users in the order of their insertion: those of start-up, then the
\* registered ones
InsertedUsers == <<"o1", "o2", "p1", "p2", "u1", "u2", "u3">>

\* collection.find_one(filter) on "users": the first match in insertion order
find_one_user(filter) ==
    LET found == find(users, filter)
        at(i) == CHOOSE n \in DOMAIN InsertedUsers : InsertedUsers[n] = i
    IN  IF found = {} THEN None
        ELSE Document(users, CHOOSE i \in found : \A j \in found : at(i) <= at(j))

\* Variant of get_by_email that looks the address up as it was given
get_by_email_as_given(email) ==
    LET document == find_one_user([email |-> email])
    IN  IF document = None THEN None
        ELSE LET user == Entity(convert_document(document))
             IN  IF user = ValidationError THEN None ELSE user

\* UserRepository.get_by_email: find_one({"email": email.lower()})
get_by_email(email) ==
    LET document == find_one_user([email |-> lower(email)])
    IN  IF document = None THEN None
        ELSE LET user == Entity(convert_document(document))
             IN  IF user = ValidationError THEN None ELSE user

\* UserRepository.get_participants_with_fcm_token, and the list of their
\* tokens the services build from it: [user.fcm_token for user in
\* participants if user.fcm_token]
get_participants_with_fcm_token ==
    {i \in find(users, [role |-> PARTICIPANT, is_active |-> TRUE]) :
        users[i].fcm_token # None}

fcm_tokens == {users[i].fcm_token : i \in get_participants_with_fcm_token} \ {Str("")}

----------------------------------------------------------------------------
(* utils/notifications.py *)

\* An exception raised by a call
Exception == [error |-> "Exception"]

\* What firebase_admin.messaging.send_multicast can do with a message
Dispatch == {"delivered", "failed", "raises"}

\* messaging.send_multicast(message): the response, or the exception it raises
send_multicast(tokens, dispatch) ==
    IF dispatch = "raises" THEN Exception
    ELSE IF dispatch = "delivered"
    THEN [success_count |-> Cardinality(tokens), failure_count |-> 0]
    ELSE [success_count |-> 0, failure_count |-> Cardinality(tokens)]

\* FirebaseNotificationManager.send_multicast_notification
send_multicast_notification(tokens, dispatch) ==
    IF tokens = {} THEN [success_count |-> 0, failure_count |-> 0]
    ELSE LET response == send_multicast(tokens, dispatch)
         IN  IF response = Exception
             THEN [success_count |-> 0, failure_count |-> Cardinality(tokens)]
             ELSE response

\* NotificationService.send_new_post_notification
send_new_post_notification(user_tokens, dispatch) ==
    send_multicast_notification(user_tokens, dispatch)

\* NotificationService.send_new_story_notification
send_new_story_notification(user_tokens, dispatch) ==
    send_multicast_notification(user_tokens, dispatch)

----------------------------------------------------------------------------
(* The outcome of a service call that ran from its first statement to its
   answer with no other request in between: the HTTP status it maps to and
   its data; the requests in flight stay where they are *)

Reply(op, user_id, id, code, data) ==
    /\ resp' = [op |-> op, user |-> user_id, id |-> id, code |-> code, data |-> data]
    /\ inflight' = inflight

----------------------------------------------------------------------------
(* services/post_service.py *)

\* Variant of _send_new_post_notification in which the exception of the
\* dispatcher is caught by no layer and reaches create_post
send_new_post_notification_unguarded(dispatch) ==
    IF fcm_tokens = {} THEN [raised |-> FALSE, sent |-> None]
    ELSE [raised |-> dispatch = "raises",
          sent |-> send_new_post_notification(fcm_tokens, dispatch)]

\* PostService._send_new_post_notification: whether it raises into its
\* caller, and the counts the notification service reported to it
_send_new_post_notification(dispatch) ==
    IF fcm_tokens = {} THEN [raised |-> FALSE, sent |-> None]
    ELSE LET sent == send_new_post_notification(fcm_tokens, dispatch)
         IN  IF sent = Exception
             THEN [raised |-> FALSE, sent |-> None]
             ELSE [raised |-> FALSE, sent |-> sent]

\* PostService.create_post; `dispatch` is what the push service does with the
\* notification of the new post
create_post(author_id, dispatch) ==
    LET author == get_by_id(users, author_id)
        _id == next_id.posts
        notified == _send_new_post_notification(dispatch)
    IN  IF author = None
        THEN Reply("create_post", author_id, 0, NOT_FOUND, None) /\ UNCHANGED store
        ELSE IF ~can_create_posts(author.doc)
        THEN Reply("create_post", author_id, 0, FORBIDDEN, None) /\ UNCHANGED store
        ELSE /\ _id <= MaxPosts
             /\ posts' = create(posts, _id,
                    [author_id |-> author_id, is_active |-> TRUE,
                     likes_count |-> 0, comments_count |-> 0])
             /\ next_id' = [next_id EXCEPT !.posts = @ + 1]
             /\ IF notified.raised
                THEN Reply("create_post", author_id, _id, INTERNAL_SERVER_ERROR,
                           [dispatch |-> dispatch, sent |-> notified.sent])
                ELSE Reply("create_post", author_id, _id, OK,
                           [dispatch |-> dispatch, sent |-> notified.sent])
             /\ UNCHANGED <<users, likes, comments, stories, story_views>>

\* PostService.get_post_by_id
get_post_by_id(post_id) ==
    LET post == get_by_id(posts, post_id)
    IN  /\ IF post = None
           THEN Reply("get_post_by_id", "-", post_id, NOT_FOUND, None)
           ELSE Reply("get_post_by_id", "-", post_id, OK,
                    [likes_count |-> get_by_post_len(likes, post_id),
                     comments_count |-> get_by_post_len(comments, post_id)])
        /\ UNCHANGED store

\* PostService.get_posts
get_posts ==
    /\ Reply("get_posts", "-", 0, OK,
            [i \in get_active_posts(ListLimit) |->
                [likes_count |-> get_by_post_len(likes, i),
                 comments_count |-> get_by_post_len(comments, i)]])
    /\ UNCHANGED store

\* PostService.update_post: update_dict holds the fields the request provides
update_post(post_id, update_dict, user_id) ==
    LET post == get_by_id(posts, post_id)
    IN  IF post = None
        THEN Reply("update_post", user_id, post_id, NOT_FOUND, None) /\ UNCHANGED store
        ELSE IF post.doc.author_id # user_id
        THEN Reply("update_post", user_id, post_id, FORBIDDEN, None) /\ UNCHANGED store
        ELSE /\ IF DOMAIN update_dict # {}
                THEN \E written \in update(posts, post_id, update_dict) : posts' = written
                ELSE posts' = posts
             /\ Reply("update_post", user_id, post_id, OK, None)
             /\ UNCHANGED <<users, likes, comments, stories, story_views, next_id>>

\* PostService.delete_post
delete_post(post_id, user_id) ==
    LET post == get_by_id(posts, post_id)
    IN  IF post = None
        THEN Reply("delete_post", user_id, post_id, NOT_FOUND, None) /\ UNCHANGED store
        ELSE IF post.doc.author_id # user_id
        THEN Reply("delete_post", user_id, post_id, FORBIDDEN, None) /\ UNCHANGED store
        ELSE /\ posts' = delete(posts, post_id)
             /\ Reply("delete_post", user_id, post_id, OK, None)
             /\ UNCHANGED <<users, likes, comments, stories, story_views, next_id>>

\* PostService.like_post
like_post(post_id, user_id) ==
    LET post == get_by_id(posts, post_id)
        user == get_by_id(users, user_id)
        existing_like == get_like_by_user_and_post(user_id, post_id)
        _id == next_id.likes
    IN  IF post = None
        THEN Reply("like_post", user_id, post_id, NOT_FOUND, None) /\ UNCHANGED store
        ELSE IF user = None
        THEN Reply("like_post", user_id, post_id, NOT_FOUND, None) /\ UNCHANGED store
        ELSE IF ~can_interact_with_posts(user.doc)
        THEN Reply("like_post", user_id, post_id, FORBIDDEN, None) /\ UNCHANGED store
        ELSE IF existing_like # None
        THEN Reply("like_post", user_id, post_id, BAD_REQUEST, None) /\ UNCHANGED store
        ELSE /\ _id <= MaxLikes
             /\ likes' = create(likes, _id, [post_id |-> post_id, user_id |-> user_id])
             /\ next_id' = [next_id EXCEPT !.likes = @ + 1]
             /\ \E written \in increment_likes_count(post_id) : posts' = written
             /\ Reply("like_post", user_id, post_id, OK, None)
             /\ UNCHANGED <<users, comments, stories, story_views>>

\* PostService.unlike_post
unlike_post(post_id, user_id) ==
    LET like == get_like_by_user_and_post(user_id, post_id)
    IN  IF like = None
        THEN Reply("unlike_post", user_id, post_id, NOT_FOUND, None) /\ UNCHANGED store
        ELSE /\ likes' = delete(likes, like.id.hex)
             /\ \E written \in decrement_likes_count(post_id) : posts' = written
             /\ Reply("unlike_post", user_id, post_id, OK, None)
             /\ UNCHANGED <<users, comments, stories, story_views, next_id>>

\* PostService.add_comment
add_comment(post_id, user_id) ==
    LET post == get_by_id(posts, post_id)
        user == get_by_id(users, user_id)
        _id == next_id.comments
    IN  IF post = None
        THEN Reply("add_comment", user_id, post_id, NOT_FOUND, None) /\ UNCHANGED store
        ELSE IF user = None
        THEN Reply("add_comment", user_id, post_id, NOT_FOUND, None) /\ UNCHANGED store
        ELSE IF ~can_interact_with_posts(user.doc)
        THEN Reply("add_comment", user_id, post_id, FORBIDDEN, None) /\ UNCHANGED store
        ELSE /\ _id <= MaxComments
             /\ comments' = create(comments, _id, [post_id |-> post_id, user_id |-> user_id])
             /\ next_id' = [next_id EXCEPT !.comments = @ + 1]
             /\ \E written \in increment_comments_count(post_id) : posts' = written
             /\ Reply("add_comment", user_id, post_id, OK, None)
             /\ UNCHANGED <<users, likes, stories, story_views>>

----------------------------------------------------------------------------
(* models/story.py *)

\* Variant of Story whose expires_at default leaves out the timedelta
Story_without_ttl(author_id) ==
    [author_id |-> author_id, created_at |-> now, expires_at |-> now,
     is_active |-> TRUE, views_count |-> 0]

\* Story(...) as create_story builds it: created_at, expires_at, is_active and
\* views_count take their defaults (the clock reads of one construction are
\* one instant at the resolution of the model)
Story(author_id) ==
    [author_id |-> author_id, created_at |-> now,
     expires_at |-> now + StoryTTLHours,
     is_active |-> TRUE, views_count |-> 0]

\* Variant of is_expired that trusts the flag the sweep sets, not the clock
is_expired_by_flag(story) == ~story.is_active

\* Story.is_expired: datetime.utcnow() > self.expires_at
is_expired(story) == now > story.expires_at

\* Story.get_time_remaining_hours
get_time_remaining_hours(story) ==
    IF is_expired(story) THEN 0 ELSE story.expires_at - now

----------------------------------------------------------------------------
(* repositories/story_repository.py *)

\* Variant of active_filter with "$gte" for "$gt"
active_filter_gte(story) == story.is_active /\ story.expires_at >= now

\* The filter {"is_active": True, "expires_at": {"$gt": current_time}}
active_filter(story) == story.is_active /\ story.expires_at > now

\* Variant of expire_filter without the "is_active": True condition
expire_filter_any(story) == story.expires_at <= now

\* The filter {"expires_at": {"$lte": current_time}, "is_active": True}
expire_filter(story) == story.expires_at <= now /\ story.is_active

\* sort("created_at", -1).limit(limit) over the matches `found` of "stories":
\* the newest `limit` of them (documents of one created_at in insertion order)
newest(found, limit) ==
    {i \in found :
        Cardinality({j \in found :
            \/ stories[j].created_at > stories[i].created_at
            \/ stories[j].created_at = stories[i].created_at /\ j < i}) < limit}

\* StoryRepository.get_active_stories: the _ids of the stories returned
get_active_stories(limit) ==
    newest({i \in DOMAIN stories : active_filter(stories[i])}, limit)

\* StoryRepository.get_stories_by_author_active: the _ids of the stories returned
get_stories_by_author_active(author_id, limit) ==
    newest({i \in DOMAIN stories :
                stories[i].author_id = author_id /\ active_filter(stories[i])}, limit)

\* Variant of expire_old_stories that removes the documents it matches
expire_old_stories_by_removal ==
    LET matched == {i \in DOMAIN stories : expire_filter(stories[i])}
    IN  [stories |-> [i \in DOMAIN stories \ matched |-> stories[i]],
         modified_count |-> Cardinality(matched)]

\* StoryRepository.expire_old_stories: update_many(filter, {"$set": {"is_active":
\* False, ...}}); the collection it leaves and result.modified_count
expire_old_stories ==
    LET matched == {i \in DOMAIN stories : expire_filter(stories[i])}
    IN  [stories |-> [i \in DOMAIN stories |->
                        IF i \in matched
                        THEN set_fields(stories[i], [is_active |-> FALSE])
                        ELSE stories[i]],
         modified_count |-> Cardinality(matched)]

\* StoryRepository.increment_views_count
increment_views_count(story_id) ==
    update(stories, story_id, "$inc" :> [views_count |-> 1])

\* Variant of get_view_by_user_and_story without _convert_document, as
\* LikeRepository.get_like_by_user_and_post is written
get_view_by_user_and_story_unconverted(user_id, story_id) ==
    LET document == find_one(story_views, [user_id |-> user_id, story_id |-> story_id])
    IN  IF document = None THEN None
        ELSE LET view == Entity(document)
             IN  IF view = ValidationError THEN None ELSE view

\* StoryViewRepository.get_view_by_user_and_story:
\* StoryView(**self._convert_document(document))
get_view_by_user_and_story(user_id, story_id) ==
    LET document == find_one(story_views, [user_id |-> user_id, story_id |-> story_id])
    IN  IF document = None THEN None
        ELSE LET view == Entity(convert_document(document))
             IN  IF view = ValidationError THEN None ELSE view

----------------------------------------------------------------------------
(* services/story_service.py *)

\* StoryService._send_new_story_notification: whether it raises into its
\* caller, and the counts the notification service reported to it
_send_new_story_notification(dispatch) ==
    IF fcm_tokens = {} THEN [raised |-> FALSE, sent |-> None]
    ELSE LET sent == send_new_story_notification(fcm_tokens, dispatch)
         IN  IF sent = Exception
             THEN [raised |-> FALSE, sent |-> None]
             ELSE [raised |-> FALSE, sent |-> sent]

\* StoryService.create_story; `dispatch` is what the push service does with
\* the notification of the new story
create_story(author_id, dispatch) ==
    LET author == get_by_id(users, author_id)
        _id == next_id.stories
        notified == _send_new_story_notification(dispatch)
    IN  IF author = None
        THEN Reply("create_story", author_id, 0, NOT_FOUND, None) /\ UNCHANGED store
        ELSE IF ~can_create_posts(author.doc)
        THEN Reply("create_story", author_id, 0, FORBIDDEN, None) /\ UNCHANGED store
        ELSE /\ _id <= MaxStories
             /\ stories' = create(stories, _id, Story(author_id))
             /\ next_id' = [next_id EXCEPT !.stories = @ + 1]
             /\ IF notified.raised
                THEN Reply("create_story", author_id, _id, INTERNAL_SERVER_ERROR,
                           [dispatch |-> dispatch, sent |-> notified.sent])
                ELSE Reply("create_story", author_id, _id, OK,
                           [dispatch |-> dispatch, sent |-> notified.sent])
             /\ UNCHANGED <<users, posts, likes, comments, story_views>>

\* StoryService.get_active_stories
list_active_stories ==
    /\ Reply("get_active_stories", "-", 0, OK, get_active_stories(ListLimit))
    /\ UNCHANGED store

\* StoryService.get_stories_by_author
get_stories_by_author(author_id) ==
    /\ Reply("get_stories_by_author", author_id, 0, OK,
             get_stories_by_author_active(author_id, ListLimit))
    /\ UNCHANGED store

\* StoryService.get_story_by_id
get_story_by_id(story_id) ==
    LET story == get_by_id(stories, story_id)
    IN  /\ IF story = None
           THEN Reply("get_story_by_id", "-", story_id, NOT_FOUND, None)
           ELSE IF is_expired(story.doc)
           THEN Reply("get_story_by_id", "-", story_id, GONE, None)
           ELSE Reply("get_story_by_id", "-", story_id, OK, None)
        /\ UNCHANGED store

\* StoryService.view_story
view_story(story_id, user_id) ==
    LET story == get_by_id(stories, story_id)
        user == get_by_id(users, user_id)
        existing_view == get_view_by_user_and_story(user_id, story_id)
        _id == next_id.story_views
    IN  IF story = None
        THEN Reply("view_story", user_id, story_id, NOT_FOUND, None) /\ UNCHANGED store
        ELSE IF is_expired(story.doc)
        THEN Reply("view_story", user_id, story_id, GONE, None) /\ UNCHANGED store
        ELSE IF user = None
        THEN Reply("view_story", user_id, story_id, NOT_FOUND, None) /\ UNCHANGED store
        ELSE IF existing_view = None
        THEN /\ _id <= MaxViews
             /\ story_views' = create(story_views, _id,
                    [story_id |-> story.id.hex, user_id |-> user_id])
             /\ next_id' = [next_id EXCEPT !.story_views = @ + 1]
             /\ \E written \in increment_views_count(story_id) : stories' = written
             /\ Reply("view_story", user_id, story_id, OK,
                      [time_remaining_hours |-> get_time_remaining_hours(story.doc),
                       log |-> "Story viewed successfully"])
             /\ UNCHANGED <<users, posts, likes, comments>>
        ELSE /\ Reply("view_story", user_id, story_id, OK,
                      [time_remaining_hours |-> get_time_remaining_hours(story.doc),
                       log |-> "User already viewed story"])
             /\ UNCHANGED store

\* StoryService.update_story: update_dict holds the fields the request provides
update_story(story_id, update_dict, user_id) ==
    LET story == get_by_id(stories, story_id)
    IN  IF story = None
        THEN Reply("update_story", user_id, story_id, NOT_FOUND, None) /\ UNCHANGED store
        ELSE IF story.doc.author_id # user_id
        THEN Reply("update_story", user_id, story_id, FORBIDDEN, None) /\ UNCHANGED store
        ELSE IF is_expired(story.doc)
        THEN Reply("update_story", user_id, story_id, GONE, None) /\ UNCHANGED store
        ELSE /\ IF DOMAIN update_dict # {}
                THEN \E written \in update(stories, story_id, update_dict) :
                        stories' = written
                ELSE stories' = stories
             /\ Reply("update_story", user_id, story_id, OK, None)
             /\ UNCHANGED <<users, posts, likes, comments, story_views, next_id>>

\* Variant of delete_story without the author check
delete_story_by_anyone(story_id, user_id) ==
    LET story == get_by_id(stories, story_id)
    IN  IF story = None
        THEN Reply("delete_story", user_id, story_id, NOT_FOUND, None) /\ UNCHANGED store
        ELSE /\ stories' = delete(stories, story_id)
             /\ Reply("delete_story", user_id, story_id, OK, None)
             /\ UNCHANGED <<users, posts, likes, comments, story_views, next_id>>

\* StoryService.delete_story
delete_story(story_id, user_id) ==
    LET story == get_by_id(stories, story_id)
    IN  IF story = None
        THEN Reply("delete_story", user_id, story_id, NOT_FOUND, None) /\ UNCHANGED store
        ELSE IF story.doc.author_id # user_id
        THEN Reply("delete_story", user_id, story_id, FORBIDDEN, None) /\ UNCHANGED store
        ELSE /\ stories' = delete(stories, story_id)
             /\ Reply("delete_story", user_id, story_id, OK, None)
             /\ UNCHANGED <<users, posts, likes, comments, story_views, next_id>>

\* StoryService.expire_old_stories; with the count it returns, the response
\* records whether the call before it was a sweep too (history)
sweep_old_stories ==
    LET result == expire_old_stories
    IN  /\ stories' = result.stories
        /\ Reply("expire_old_stories", "-", 0, OK,
                 [expired_count |-> result.modified_count,
                  after_sweep |-> resp.op = "expire_old_stories"])
        /\ UNCHANGED <<users, posts, likes, comments, story_views, next_id>>

----------------------------------------------------------------------------
(* services/user_service.py *)

\* UserService.register_user
register_user(email, password, role) ==
    LET user_data == [email |-> EmailStr(email), password |-> password, role |-> role]
        existing_user == get_by_email(user_data.email)
        _id == NewUserId(next_id.users)
        user == [email |-> validate_email(EmailStr(user_data.email)),
                 password_hash |-> hash_password(user_data.password),
                 full_name |-> Str("New"), bio |-> None, allergies |-> List(<<>>),
                 role |-> user_data.role, is_active |-> TRUE,
                 fcm_token |-> None, profile_image_url |-> None]
    IN  IF existing_user # None
        THEN /\ Reply("register_user", "-", 0, BAD_REQUEST,
                      [email |-> email, access_token |-> None])
             /\ UNCHANGED store
        ELSE /\ next_id.users <= MaxUsers
             /\ users' = create(users, _id, user)
             /\ next_id' = [next_id EXCEPT !.users = @ + 1]
             /\ Reply("register_user", _id, 0, OK,
                      [email |-> email,
                       access_token |-> create_access_token(_id, user.email, user.role)])
             /\ UNCHANGED <<posts, likes, comments, stories, story_views>>

\* UserService.login_user
login_user(email, password) ==
    LET login_data == [email |-> EmailStr(email), password |-> password]
        user == get_by_email(login_data.email)
    IN  /\ IF user = None
           THEN Reply("login_user", "-", 0, UNAUTHORIZED,
                      [email |-> email, password |-> password,
                       detail |-> "Email o contrasena incorrectos",
                       access_token |-> None])
           ELSE IF ~user.doc.is_active
           THEN Reply("login_user", user.id.hex, 0, UNAUTHORIZED,
                      [email |-> email, password |-> password,
                       detail |-> "Cuenta desactivada",
                       access_token |-> None])
           ELSE IF ~verify_password(login_data.password, user.doc.password_hash)
           THEN Reply("login_user", user.id.hex, 0, UNAUTHORIZED,
                      [email |-> email, password |-> password,
                       detail |-> "Email o contrasena incorrectos",
                       access_token |-> None])
           ELSE Reply("login_user", user.id.hex, 0, OK,
                      [email |-> email, password |-> password,
                       detail |-> "",
                       access_token |-> create_access_token(
                            user.id.hex, user.doc.email, user.doc.role)])
        /\ UNCHANGED store

\* UserService.get_user_profile
get_user_profile(user_id) ==
    LET user == get_by_id(users, user_id)
    IN  /\ IF user = None
           THEN Reply("get_user_profile", user_id, 0, NOT_FOUND, None)
           ELSE Reply("get_user_profile", user_id, 0, OK, user.doc)
        /\ UNCHANGED store

\* Variant of update_user_profile's update_dict that takes every field of
\* the request, None included
update_dict_of_all(update_data) == update_data

\* The update_dict update_user_profile prepares: the fields of the request
\* that are not None
update_dict_of(update_data) ==
    [k \in {f \in DOMAIN update_data : update_data[f] # None} |-> update_data[k]]

\* UserService.update_user_profile
update_user_profile(user_id, update_data) ==
    LET user == get_by_id(users, user_id)
        update_dict == update_dict_of(update_data)
    IN  IF user = None
        THEN /\ Reply("update_user_profile", user_id, 0, NOT_FOUND,
                      [request |-> update_data])
             /\ UNCHANGED store
        ELSE /\ IF DOMAIN update_dict # {}
                THEN \E written \in update(users, user_id, update_dict) : users' = written
                ELSE users' = users
             /\ Reply("update_user_profile", user_id, 0, OK, [request |-> update_data])
             /\ UNCHANGED <<posts, likes, comments, stories, story_views, next_id>>

\* UserService.update_fcm_token (UserRepository.update_fcm_token)
update_fcm_token(user_id, fcm_token) ==
    IF get_by_id(users, user_id) = None
    THEN Reply("update_fcm_token", user_id, 0, NOT_FOUND, None) /\ UNCHANGED store
    ELSE /\ \E written \in update(users, user_id, [fcm_token |-> fcm_token]) :
                users' = written
         /\ Reply("update_fcm_token", user_id, 0, OK, None)
         /\ UNCHANGED <<posts, likes, comments, stories, story_views, next_id>>

\* UserService.deactivate_user (UserRepository.deactivate_user)
deactivate_user(user_id) ==
    IF get_by_id(users, user_id) = None
    THEN Reply("deactivate_user", user_id, 0, NOT_FOUND, None) /\ UNCHANGED store
    ELSE /\ \E written \in update(users, user_id, [is_active |-> FALSE]) :
                users' = written
         /\ Reply("deactivate_user", user_id, 0, OK, None)
         /\ UNCHANGED <<posts, likes, comments, stories, story_views, next_id>>

\* UserService.activate_user (UserRepository.activate_user)
activate_user(user_id) ==
    IF get_by_id(users, user_id) = None
    THEN Reply("activate_user", user_id, 0, NOT_FOUND, None) /\ UNCHANGED store
    ELSE /\ \E written \in update(users, user_id, [is_active |-> TRUE]) :
                users' = written
         /\ Reply("activate_user", user_id, 0, OK, None)
         /\ UNCHANGED <<posts, likes, comments, stories, story_views, next_id>>

----------------------------------------------------------------------------
\* Time passes between two requests
Tick(d) ==
    /\ now + d <= MaxTime
    /\ now' = now + d
    /\ Reply("tick", "-", 0, OK, None)
    /\ UNCHANGED store

----------------------------------------------------------------------------
(* The state after start-up: four registered users, empty collections *)

\* The coroutines the event loop can hold at once
RequestIds == {1, 2}

\* A slot of the event loop that holds no request
NoRequest == [op |-> "none", pc |-> "done", args |-> None, local |-> None, code |-> 0]

\* The document of a user registered before start-up; participant p1 has
\* stored a device token
RegisteredUser(u) ==
    [email |-> <<IF u = "o1" THEN "o" ELSE IF u = "p1" THEN "p"
                 ELSE IF u = "p2" THEN "r" ELSE "q", "@", "x">>,
     password_hash |-> hash_password("pw1"),
     full_name |-> Str("Old"), bio |-> None, allergies |-> List(<<>>),
     role |-> IF u \in {"o1", OtherOrganizer} THEN ORGANIZER ELSE PARTICIPANT,
     is_active |-> TRUE,
     fcm_token |-> IF u = "p1" THEN Str("token-1") ELSE None,
     profile_image_url |-> None]

Init ==
    /\ now = 0
    /\ users = [u \in UserIds \cup {OtherOrganizer} |-> RegisteredUser(u)]
    /\ posts = <<>>
    /\ likes = <<>>
    /\ comments = <<>>
    /\ stories = <<>>
    /\ story_views = <<>>
    /\ next_id = [users |-> 1, posts |-> 1, likes |-> 1, comments |-> 1,
                  stories |-> 1, story_views |-> 1]
    /\ resp = [op |-> "start", user |-> "-", id |-> 0, code |-> OK, data |-> None]
    /\ inflight = [r \in RequestIds |-> NoRequest]

\* The requests to the post endpoints
NextPosts ==
    \/ \E u \in Subjects, n \in Dispatch : create_post(u, n) /\ UNCHANGED now
    \/ \E p \in PostIds : get_post_by_id(p) /\ UNCHANGED now
    \/ get_posts /\ UNCHANGED now
    \/ \E p \in PostIds, d \in PostUpdate, u \in Subjects : update_post(p, d, u) /\ UNCHANGED now
    \/ \E p \in PostIds, u \in Subjects : delete_post(p, u) /\ UNCHANGED now
    \/ \E p \in PostIds, u \in Subjects : like_post(p, u) /\ UNCHANGED now
    \/ \E p \in PostIds, u \in Subjects : unlike_post(p, u) /\ UNCHANGED now
    \/ \E p \in PostIds, u \in Subjects : add_comment(p, u) /\ UNCHANGED now

SpecPosts == Init /\ [][NextPosts]_vars

\* The requests to the story endpoints, and the passage of time
NextStories ==
    \/ \E u \in Subjects, n \in Dispatch : create_story(u, n) /\ UNCHANGED now
    \/ list_active_stories /\ UNCHANGED now
    \/ \E u \in UserIds : get_stories_by_author(u) /\ UNCHANGED now
    \/ \E s \in StoryIds : get_story_by_id(s) /\ UNCHANGED now
    \/ \E s \in StoryIds, u \in Subjects : view_story(s, u) /\ UNCHANGED now
    \/ \E s \in StoryIds, d \in StoryUpdate, u \in Subjects : update_story(s, d, u) /\ UNCHANGED now
    \/ \E s \in StoryIds, u \in Subjects : delete_story(s, u) /\ UNCHANGED now
    \/ sweep_old_stories /\ UNCHANGED now
    \/ \E d \in TickSteps : Tick(d)

SpecStories == Init /\ [][NextStories]_vars

\* The requests that create, update and delete posts and stories, by every
\* caller, the second organizer included, within the lifetime of the stories
NextOwners ==
    \/ \E u \in Callers, n \in Dispatch : create_post(u, n) /\ UNCHANGED now
    \/ \E p \in PostIds, d \in PostUpdate, u \in Callers : update_post(p, d, u) /\ UNCHANGED now
    \/ \E p \in PostIds, u \in Callers : delete_post(p, u) /\ UNCHANGED now
    \/ \E u \in Callers, n \in Dispatch : create_story(u, n) /\ UNCHANGED now
    \/ \E s \in StoryIds, d \in StoryUpdate, u \in Callers : update_story(s, d, u) /\ UNCHANGED now
    \/ \E s \in StoryIds, u \in Callers : delete_story(s, u) /\ UNCHANGED now

SpecOwners == Init /\ [][NextOwners]_vars

\* The accounts the account requests of NextAuth and NextProfile name
AccountIds == {"p1", "u1", "ghost"}
ProfileIds == {"o1", "p1", "ghost"}

\* Registration, login, and the deactivation and activation of accounts
NextAuth ==
    \/ \E e \in Emails, pw \in Passwords, r \in {ORGANIZER, PARTICIPANT} :
            register_user(e, pw, r) /\ UNCHANGED now
    \/ \E e \in Emails, pw \in Passwords : login_user(e, pw) /\ UNCHANGED now
    \/ \E u \in AccountIds : deactivate_user(u) /\ UNCHANGED now
    \/ \E u \in AccountIds : activate_user(u) /\ UNCHANGED now

SpecAuth == Init /\ [][NextAuth]_vars

\* The profile requests
NextProfile ==
    \/ \E u \in ProfileIds, d \in UserUpdate : update_user_profile(u, d) /\ UNCHANGED now
    \/ \E u \in ProfileIds : update_fcm_token(u, NewValue.fcm_token) /\ UNCHANGED now
    \/ \E u \in ProfileIds : get_user_profile(u) /\ UNCHANGED now

SpecProfile == Init /\ [][NextProfile]_vars

\* The requests that create and interact with content, while accounts are
\* deactivated and activated
NextAccess ==
    \/ \E u \in Subjects, n \in Dispatch : create_post(u, n) /\ UNCHANGED now
    \/ \E u \in Subjects, n \in Dispatch : create_story(u, n) /\ UNCHANGED now
    \/ \E p \in PostIds, u \in Subjects : like_post(p, u) /\ UNCHANGED now
    \/ \E p \in PostIds, u \in Subjects : unlike_post(p, u) /\ UNCHANGED now
    \/ \E p \in PostIds, u \in Subjects : add_comment(p, u) /\ UNCHANGED now
    \/ \E u \in UserIds : deactivate_user(u) /\ UNCHANGED now
    \/ \E u \in UserIds : activate_user(u) /\ UNCHANGED now

SpecAccess == Init /\ [][NextAccess]_vars

----------------------------------------------------------------------------
(* utils/auth.py: signed tokens; middleware/auth_middleware.py *)

\* settings.jwt_secret, the key the service signs with
jwt_secret == "jwt_secret"

\* settings.jwt_expiration_hours
jwt_expiration_hours == 24

\* JWTManager.create_access_token: the token jwt.encode returns, as the claims
\* it carries, its "exp" claim and the key its signature was made with
jwt_create_access_token(data) ==
    [claims |-> data, exp |-> now + jwt_expiration_hours, key |-> jwt_secret]

\* Variant of verify_token that decodes without verifying the signature, as
\* JWTManager.decode_token does
verify_token_unsigned(token) ==
    IF token.claims = None \/ token.exp < now THEN None ELSE token.claims

\* JWTManager.verify_token: jwt.decode raises JWTError for a token it cannot
\* parse, for a signature the secret key does not verify and for an "exp" that
\* lies before now; the payload otherwise
verify_token(token) ==
    IF token.claims = None \/ token.key # jwt_secret \/ token.exp < now
    THEN None
    ELSE token.claims

\* AuthService.get_user_from_token
get_user_from_token(token) ==
    LET payload == verify_token(token)
    IN  IF payload # None
        THEN [user_id |-> payload.sub, email |-> payload.email, role |-> payload.role]
        ELSE None

\* AuthMiddleware.get_current_user: the user information of the token, or the
\* status of the HTTPException it raises
get_current_user(token) ==
    LET user_info == get_user_from_token(token)
    IN  IF user_info = None
        THEN [status_code |-> UNAUTHORIZED, user |-> None]
        ELSE [status_code |-> OK, user |-> user_info]

\* AuthMiddleware.get_current_active_user: returns current_user as it is
get_current_active_user(token) == get_current_user(token)

\* AuthMiddleware.require_organizer_role
require_organizer_role(token) ==
    LET current_user == get_current_user(token)
    IN  IF current_user.status_code # OK THEN current_user
        ELSE IF current_user.user.role # ORGANIZER
        THEN [status_code |-> FORBIDDEN, user |-> current_user.user]
        ELSE current_user

\* AuthMiddleware.require_participant_role
require_participant_role(token) ==
    LET current_user == get_current_user(token)
    IN  IF current_user.status_code # OK THEN current_user
        ELSE IF current_user.user.role # PARTICIPANT
        THEN [status_code |-> FORBIDDEN, user |-> current_user.user]
        ELSE current_user

\* What a route answers when its dependency raised: the HTTPException's status
Denied(op, current_user) ==
    /\ Reply(op, IF current_user.user = None THEN "-" ELSE current_user.user.user_id,
             0, current_user.status_code, None)
    /\ UNCHANGED store

----------------------------------------------------------------------------
(* routes/post_routes.py, routes/auth_routes.py *)

\* POST /posts/
route_create_post(token, dispatch) ==
    LET current_user == require_organizer_role(token)
    IN  IF current_user.status_code # OK THEN Denied("create_post", current_user)
        ELSE create_post(current_user.user.user_id, dispatch)

\* POST /posts/{post_id}/like
route_like_post(post_id, token) ==
    LET current_user == require_participant_role(token)
    IN  IF current_user.status_code # OK THEN Denied("like_post", current_user)
        ELSE like_post(post_id, current_user.user.user_id)

\* GET /auth/me
get_current_user_profile(token) ==
    LET current_user == get_current_active_user(token)
    IN  IF current_user.status_code # OK THEN Denied("get_user_profile", current_user)
        ELSE get_user_profile(current_user.user.user_id)

\* POST /auth/refresh
refresh_token(token) ==
    LET current_user == get_current_user(token)
    IN  IF current_user.status_code # OK THEN Denied("refresh_token", current_user)
        ELSE LET user == get_by_id(users, current_user.user.user_id)
             IN  /\ IF user = None
                    THEN Reply("refresh_token", current_user.user.user_id, 0,
                               NOT_FOUND, None)
                    ELSE Reply("refresh_token", user.id.hex, 0, OK,
                               [access_token |-> jwt_create_access_token(
                                    create_access_token(user.id.hex, user.doc.email,
                                                        user.doc.role)),
                                is_active |-> user.doc.is_active])
                 /\ UNCHANGED store

----------------------------------------------------------------------------
(* The bearer tokens a request may present *)

\* The instants at which the tokens presented were issued
IssuedAt == {0, 12}

\* The accounts the tokens are issued to
TokenSubjects == {"o1", "p1"}

\* Tokens the service issued at or before now to a registered account (login
\* and refresh sign the account's id, email and role), tokens signed with
\* another key for any role, and a string that is no token at all
BearerTokens ==
    {[claims |-> create_access_token(u, users[u].email, users[u].role),
      exp |-> t + jwt_expiration_hours, key |-> jwt_secret] :
        u \in TokenSubjects, t \in {i \in IssuedAt : i <= now}}
    \cup {[claims |-> create_access_token(u, users[u].email, r),
           exp |-> MaxTime + jwt_expiration_hours, key |-> "another_key"] :
            u \in TokenSubjects, r \in {ORGANIZER, PARTICIPANT}}
    \cup {[claims |-> None, exp |-> 0, key |-> ""]}

\* The requests behind the access-control gate, the deactivation and
\* activation of accounts, and the passage of time
NextGate ==
    \/ \E t \in BearerTokens, n \in Dispatch : route_create_post(t, n) /\ UNCHANGED now
    \/ \E t \in BearerTokens, p \in PostIds : route_like_post(p, t) /\ UNCHANGED now
    \/ \E t \in BearerTokens : get_current_user_profile(t) /\ UNCHANGED now
    \/ \E t \in BearerTokens : refresh_token(t) /\ UNCHANGED now
    \/ \E u \in TokenSubjects : deactivate_user(u) /\ UNCHANGED now
    \/ \E u \in TokenSubjects : activate_user(u) /\ UNCHANGED now
    \/ \E d \in TickSteps : Tick(d)

SpecGate == Init /\ [][NextGate]_vars

----------------------------------------------------------------------------
(* The repositories and services when a call to the database driver raises *)

\* What the driver does with one call
Driver == {"ok", "raises"}

\* BaseRepository.create around insert_one: `except Exception: raise`; whether
\* it raises into its caller, and the collection it leaves
create_on(driver, coll, _id, entity) ==
    IF driver = "raises"
    THEN [raised |-> TRUE, coll |-> coll]
    ELSE [raised |-> FALSE, coll |-> create(coll, _id, entity)]

\* BaseRepository.get_by_id around find_one: `except Exception: return None`
get_by_id_on(driver, coll, entity_id) ==
    IF driver = "raises" THEN None ELSE get_by_id(coll, entity_id)

\* BaseRepository.update around update_one: `except Exception: return None`,
\* nothing written
update_on(driver, coll, entity_id, update_data) ==
    IF driver = "raises" THEN {coll} ELSE update(coll, entity_id, update_data)

\* StoryRepository.get_active_stories around find: `except Exception: return []`
get_active_stories_on(driver, limit) ==
    IF driver = "raises" THEN {} ELSE get_active_stories(limit)

\* StoryRepository.expire_old_stories around update_many:
\* `except Exception: return 0`
expire_old_stories_on(driver) ==
    IF driver = "raises"
    THEN [stories |-> stories, modified_count |-> 0]
    ELSE expire_old_stories

\* StoryService.create_story, `driver` being what insert_one does
create_story_on(driver, author_id, dispatch) ==
    LET author == get_by_id(users, author_id)
        _id == next_id.stories
        created == create_on(driver, stories, _id, Story(author_id))
    IN  IF author = None
        THEN Reply("create_story", author_id, 0, NOT_FOUND, [driver |-> "unused"])
             /\ UNCHANGED store
        ELSE IF ~can_create_posts(author.doc)
        THEN Reply("create_story", author_id, 0, FORBIDDEN, [driver |-> "unused"])
             /\ UNCHANGED store
        ELSE IF created.raised
        THEN Reply("create_story", author_id, 0, INTERNAL_SERVER_ERROR,
                   [driver |-> driver])
             /\ UNCHANGED store
        ELSE /\ _id <= MaxStories
             /\ stories' = created.coll
             /\ next_id' = [next_id EXCEPT !.stories = @ + 1]
             /\ Reply("create_story", author_id, _id,
                      IF _send_new_story_notification(dispatch).raised
                      THEN INTERNAL_SERVER_ERROR ELSE OK,
                      [driver |-> driver])
             /\ UNCHANGED <<users, posts, likes, comments, story_views>>

\* StoryService.get_active_stories, `driver` being what find does
list_active_stories_on(driver) ==
    /\ Reply("get_active_stories", "-", 0, OK,
             [driver |-> driver, stories |-> get_active_stories_on(driver, ListLimit)])
    /\ UNCHANGED store

\* StoryService.get_story_by_id, `driver` being what find_one does
get_story_by_id_on(driver, story_id) ==
    LET story == get_by_id_on(driver, stories, story_id)
    IN  /\ IF story = None
           THEN Reply("get_story_by_id", "-", story_id, NOT_FOUND, [driver |-> driver])
           ELSE IF is_expired(story.doc)
           THEN Reply("get_story_by_id", "-", story_id, GONE, [driver |-> driver])
           ELSE Reply("get_story_by_id", "-", story_id, OK, [driver |-> driver])
        /\ UNCHANGED store

\* StoryService.update_story, `driver` being what update_one does
update_story_on(driver, story_id, update_dict, user_id) ==
    LET story == get_by_id(stories, story_id)
    IN  IF story = None
        THEN Reply("update_story", user_id, story_id, NOT_FOUND, [driver |-> "unused"])
             /\ UNCHANGED store
        ELSE IF story.doc.author_id # user_id
        THEN Reply("update_story", user_id, story_id, FORBIDDEN, [driver |-> "unused"])
             /\ UNCHANGED store
        ELSE IF is_expired(story.doc)
        THEN Reply("update_story", user_id, story_id, GONE, [driver |-> "unused"])
             /\ UNCHANGED store
        ELSE IF DOMAIN update_dict = {}
        THEN Reply("update_story", user_id, story_id, OK, [driver |-> "unused"])
             /\ UNCHANGED store
        ELSE /\ \E written \in update_on(driver, stories, story_id, update_dict) :
                    stories' = written
             /\ Reply("update_story", user_id, story_id, OK, [driver |-> driver])
             /\ UNCHANGED <<users, posts, likes, comments, story_views, next_id>>

\* StoryService.expire_old_stories, `driver` being what update_many does
sweep_old_stories_on(driver) ==
    LET result == expire_old_stories_on(driver)
    IN  /\ stories' = result.stories
        /\ Reply("expire_old_stories", "-", 0, OK,
                 [driver |-> driver, expired_count |-> result.modified_count])
        /\ UNCHANGED <<users, posts, likes, comments, story_views, next_id>>

\* PostService.like_post, `driver` being what the update_one of
\* increment_likes_count does
like_post_on(driver, post_id, user_id) ==
    LET post == get_by_id(posts, post_id)
        user == get_by_id(users, user_id)
        existing_like == get_like_by_user_and_post(user_id, post_id)
        _id == next_id.likes
    IN  IF post = None \/ user = None
        THEN Reply("like_post", user_id, post_id, NOT_FOUND, [driver |-> "unused"])
             /\ UNCHANGED store
        ELSE IF ~can_interact_with_posts(user.doc)
        THEN Reply("like_post", user_id, post_id, FORBIDDEN, [driver |-> "unused"])
             /\ UNCHANGED store
        ELSE IF existing_like # None
        THEN Reply("like_post", user_id, post_id, BAD_REQUEST, [driver |-> "unused"])
             /\ UNCHANGED store
        ELSE /\ _id <= MaxLikes
             /\ likes' = create(likes, _id, [post_id |-> post_id, user_id |-> user_id])
             /\ next_id' = [next_id EXCEPT !.likes = @ + 1]
             /\ \E written \in update_on(driver, posts, post_id,
                                         "$inc" :> [likes_count |-> 1]) :
                    posts' = written
             /\ Reply("like_post", user_id, post_id, OK, [driver |-> driver])
             /\ UNCHANGED <<users, comments, stories, story_views>>

\* The story and like requests while calls to the driver may raise
NextFaults ==
    \/ \E f \in Driver, n \in Dispatch : create_story_on(f, "o1", n) /\ UNCHANGED now
    \/ \E f \in Driver : list_active_stories_on(f) /\ UNCHANGED now
    \/ \E f \in Driver, s \in StoryIds : get_story_by_id_on(f, s) /\ UNCHANGED now
    \/ \E f \in Driver, s \in StoryIds, d \in StoryUpdate, u \in {"o1", "p1"} :
            update_story_on(f, s, d, u) /\ UNCHANGED now
    \/ \E f \in Driver : sweep_old_stories_on(f) /\ UNCHANGED now
    \/ \E n \in Dispatch : create_post("o1", n) /\ UNCHANGED now
    \/ \E f \in Driver, p \in PostIds : like_post_on(f, p, "p1") /\ UNCHANGED now
    \/ \E d \in TickSteps : Tick(d)

SpecFaults == Init /\ [][NextFaults]_vars

----------------------------------------------------------------------------
(* Requests served concurrently: a coroutine runs from one await to the next,
   and other coroutines run while it is suspended *)

\* A request enters the event loop in slot r
Begin(r, op, args) ==
    /\ inflight[r].pc = "done"
    /\ inflight' = [inflight EXCEPT
                        ![r] = [op |-> op, pc |-> "start", args |-> args,
                                local |-> None, code |-> 0]]
    /\ UNCHANGED <<resp, store>>

\* Request r is suspended at the await `pc`, holding the locals `local`
Await(r, pc, local) ==
    /\ inflight' = [inflight EXCEPT ![r].pc = pc, ![r].local = local]
    /\ UNCHANGED resp

\* Request r returns or raises: the HTTP status it maps to
Answer(r, user_id, id, code, local) ==
    /\ inflight' = [inflight EXCEPT ![r].pc = "done", ![r].code = code,
                                    ![r].local = local]
    /\ resp' = [op |-> inflight[r].op, user |-> user_id, id |-> id, code |-> code,
                data |-> [request |-> r]]

\* Variant of like_repository_create over a collection with a unique index on
\* (user_id, post_id): insert_one raises DuplicateKeyError for a second Like
like_repository_create_unique(post_id, user_id) ==
    IF find(likes, [user_id |-> user_id, post_id |-> post_id]) # {}
    THEN [raised |-> TRUE, coll |-> likes]
    ELSE [raised |-> FALSE,
          coll |-> create(likes, next_id.likes,
                          [post_id |-> post_id, user_id |-> user_id])]

\* like_repository.create(like) in like_post: whether it raises, and the
\* collection it leaves (no index constrains the collection)
like_repository_create(post_id, user_id) ==
    [raised |-> FALSE,
     coll |-> create(likes, next_id.likes, [post_id |-> post_id, user_id |-> user_id])]

\* PostService.like_post, from the await request r is suspended at to its next
like_post_step(r) ==
    LET pc == inflight[r].pc
        post_id == inflight[r].args.post_id
        user_id == inflight[r].args.user_id
        user == get_by_id(users, user_id)
        created_like == like_repository_create(post_id, user_id)
    IN  /\ inflight[r].op = "like_post"
        /\ pc # "done"
        /\ CASE pc = "start" ->
                    /\ IF get_by_id(posts, post_id) = None
                       THEN Answer(r, user_id, post_id, NOT_FOUND, None)
                       ELSE Await(r, "get_user", None)
                    /\ UNCHANGED store
             [] pc = "get_user" ->
                    /\ IF user = None
                       THEN Answer(r, user_id, post_id, NOT_FOUND, None)
                       ELSE IF ~can_interact_with_posts(user.doc)
                       THEN Answer(r, user_id, post_id, FORBIDDEN, None)
                       ELSE Await(r, "get_like", None)
                    /\ UNCHANGED store
             [] pc = "get_like" ->
                    /\ IF get_like_by_user_and_post(user_id, post_id) # None
                       THEN Answer(r, user_id, post_id, BAD_REQUEST, None)
                       ELSE Await(r, "create",
                                  [stored |-> Cardinality(
                                      find(likes, [user_id |-> user_id,
                                                   post_id |-> post_id]))])
                    /\ UNCHANGED store
             [] pc = "create" ->
                    IF created_like.raised
                    THEN /\ Answer(r, user_id, post_id, INTERNAL_SERVER_ERROR,
                                   inflight[r].local)
                         /\ UNCHANGED store
                    ELSE /\ next_id.likes <= MaxLikes
                         /\ likes' = created_like.coll
                         /\ next_id' = [next_id EXCEPT !.likes = @ + 1]
                         /\ Await(r, "increment", inflight[r].local)
                         /\ UNCHANGED <<users, posts, comments, stories, story_views>>
             [] pc = "increment" ->
                    /\ \E written \in increment_likes_count(post_id) : posts' = written
                    /\ Answer(r, user_id, post_id, OK, inflight[r].local)
                    /\ UNCHANGED <<users, likes, comments, stories, story_views, next_id>>

\* PostService.unlike_post, from the await request r is suspended at to its next
unlike_post_step(r) ==
    LET pc == inflight[r].pc
        post_id == inflight[r].args.post_id
        user_id == inflight[r].args.user_id
        like == get_like_by_user_and_post(user_id, post_id)
        local == inflight[r].local
    IN  /\ inflight[r].op = "unlike_post"
        /\ pc # "done"
        /\ CASE pc = "start" ->
                    /\ IF like = None
                       THEN Answer(r, user_id, post_id, NOT_FOUND,
                                   [stored |-> Cardinality(
                                       find(likes, [user_id |-> user_id,
                                                    post_id |-> post_id])),
                                    like_id |-> 0, deleted |-> FALSE,
                                    decremented |-> FALSE])
                       ELSE Await(r, "delete",
                                  [stored |-> Cardinality(
                                       find(likes, [user_id |-> user_id,
                                                    post_id |-> post_id])),
                                   like_id |-> like.id.hex, deleted |-> FALSE,
                                   decremented |-> FALSE])
                    /\ UNCHANGED store
             [] pc = "delete" ->
                    /\ likes' = delete(likes, local.like_id)
                    /\ IF local.like_id \in DOMAIN likes
                       THEN Await(r, "decrement", [local EXCEPT !.deleted = TRUE])
                       ELSE Answer(r, user_id, post_id, OK, local)
                    /\ UNCHANGED <<users, posts, comments, stories, story_views, next_id>>
             [] pc = "decrement" ->
                    /\ \E written \in decrement_likes_count(post_id) : posts' = written
                    /\ Answer(r, user_id, post_id, OK,
                              [local EXCEPT !.decremented = TRUE])
                    /\ UNCHANGED <<users, likes, comments, stories, story_views, next_id>>

\* The participants whose requests interleave
Likers == {"p1", "p2"}

\* Posts are created, and like and unlike requests are served concurrently
NextLikeRace ==
    \/ \E n \in Dispatch : create_post("o1", n) /\ UNCHANGED now
    \/ \E r \in RequestIds, p \in PostIds, u \in Likers :
            Begin(r, "like_post", [post_id |-> p, user_id |-> u]) /\ UNCHANGED now
    \/ \E r \in RequestIds : like_post_step(r) /\ UNCHANGED now
    \/ \E r \in RequestIds, p \in PostIds, u \in Likers :
            Begin(r, "unlike_post", [post_id |-> p, user_id |-> u]) /\ UNCHANGED now
    \/ \E r \in RequestIds : unlike_post_step(r) /\ UNCHANGED now

SpecLikeRace == Init /\ [][NextLikeRace]_vars

----------------------------------------------------------------------------
(* Registration requests served concurrently *)

\* Variant of user_repository_create over a collection with a unique index on
\* email: insert_one raises DuplicateKeyError for a second user of one email
user_repository_create_unique(_id, user) ==
    IF find(users, [email |-> user.email]) # {}
    THEN [raised |-> TRUE, coll |-> users]
    ELSE [raised |-> FALSE, coll |-> create(users, _id, user)]

\* user_repository.create(user) in register_user: whether it raises, and the
\* collection it leaves (no index constrains the collection)
user_repository_create(_id, user) ==
    [raised |-> FALSE, coll |-> create(users, _id, user)]

\* UserService.register_user, from the await request r is suspended at to its
\* next
register_user_step(r) ==
    LET pc == inflight[r].pc
        user_data == inflight[r].args
        _id == NewUserId(next_id.users)
        user == [email |-> validate_email(EmailStr(user_data.email)),
                 password_hash |-> hash_password(user_data.password),
                 full_name |-> Str("New"), bio |-> None, allergies |-> List(<<>>),
                 role |-> user_data.role, is_active |-> TRUE,
                 fcm_token |-> None, profile_image_url |-> None]
        created_user == user_repository_create(_id, user)
        stored == Cardinality(find(users, [email |-> user.email]))
    IN  /\ inflight[r].op = "register_user"
        /\ pc # "done"
        /\ CASE pc = "start" ->
                    /\ IF get_by_email(user_data.email) # None
                       THEN Answer(r, "-", 0, BAD_REQUEST,
                                   [user_id |-> "-", access_token |-> None,
                                    stored |-> stored])
                       ELSE Await(r, "create",
                                  [user_id |-> "-", access_token |-> None,
                                   stored |-> stored])
                    /\ UNCHANGED store
             [] pc = "create" ->
                    IF created_user.raised
                    THEN /\ Answer(r, "-", 0, INTERNAL_SERVER_ERROR, inflight[r].local)
                         /\ UNCHANGED store
                    ELSE /\ next_id.users <= MaxUsers
                         /\ users' = created_user.coll
                         /\ next_id' = [next_id EXCEPT !.users = @ + 1]
                         /\ Answer(r, _id, 0, OK,
                                   [user_id |-> _id,
                                    access_token |->
                                        create_access_token(_id, user.email, user.role),
                                    stored |-> inflight[r].local.stored])
                         /\ UNCHANGED <<posts, likes, comments, stories, story_views>>

\* The e-mail addresses of the interleaved registrations: two new addresses,
\* one of them in two spellings, and the address of a registered user
RaceEmails == {<<"a", "@", "x">>, <<"A", "@", "X">>, <<"b", "@", "x">>, <<"p", "@", "x">>}

\* Registrations are served concurrently
NextRegisterRace ==
    \/ \E r \in RequestIds, e \in RaceEmails, pw \in Passwords,
          role \in {ORGANIZER, PARTICIPANT} :
            Begin(r, "register_user",
                  [email |-> EmailStr(e), password |-> pw, role |-> role])
            /\ UNCHANGED now
    \/ \E r \in RequestIds : register_user_step(r) /\ UNCHANGED now

SpecRegisterRace == Init /\ [][NextRegisterRace]_vars

----------------------------------------------------------------------------
(* Properties of the post endpoints, checked under SpecPosts *)

\* The Like documents of one user on one post
likes_of(user_id, post_id) == find(likes, [user_id |-> user_id, post_id |-> post_id])

\* C1: at most one Like document exists for every (user, post) pair, and a
\* like_post that succeeds leaves exactly one for its pair (a second like_post
\* of the same participant is rejected and inserts nothing).
C1_OneLikePerUserAndPost ==
    /\ \A u \in Subjects, p \in PostIds : Cardinality(likes_of(u, p)) <= 1
    /\ (resp.op = "like_post" /\ resp.code = OK)
            => Cardinality(likes_of(resp.user, resp.id)) = 1

\* C2: unlike_post of a user without a Like on the post is rejected as not
\* found and changes neither the likes nor the post; unlike_post of a user
\* with a Like on the post succeeds and removes exactly that Like.
C2_UnlikeRequiresLike ==
    [][resp'.op = "unlike_post" =>
        IF likes_of(resp'.user, resp'.id) = {}
        THEN resp'.code = NOT_FOUND /\ likes' = likes /\ posts' = posts
        ELSE /\ resp'.code = OK
             /\ \E l \in likes_of(resp'.user, resp'.id) : likes' = delete(likes, l)]_vars

\* C3: the like count a read of a post returns is the number of Like documents
\* stored for the post; it reads 1 once a participant has liked a fresh post,
\* and 0 once that participant has called unlike_post.
C3_LikeCountRead ==
    [][/\ (resp'.op = "get_post_by_id" /\ resp'.code = OK)
            => resp'.data.likes_count
                 = Cardinality(find(likes', [post_id |-> resp'.id]))
       /\ resp'.op = "get_posts"
            => \A p \in DOMAIN resp'.data :
                 resp'.data[p].likes_count
                   = Cardinality(find(likes', [post_id |-> p]))
       /\ (resp'.op = "like_post" /\ resp'.code = OK
                /\ find(likes, [post_id |-> resp'.id]) = {})
            => find_by_filter_len(likes', [post_id |-> resp'.id], FindLimit) = 1
       /\ (resp'.op = "unlike_post" /\ likes_of(resp'.user, resp'.id) # {}
                /\ find(likes, [post_id |-> resp'.id]) = likes_of(resp'.user, resp'.id))
            => find_by_filter_len(likes', [post_id |-> resp'.id], FindLimit) = 0]_vars

\* C4: the likes_count and comments_count stored on every post equal the
\* numbers of Like and Comment documents stored for it.
C4_StoredCountsMatch ==
    \A p \in DOMAIN posts :
        /\ posts[p].likes_count = Cardinality(find(likes, [post_id |-> p]))
        /\ posts[p].comments_count = Cardinality(find(comments, [post_id |-> p]))

----------------------------------------------------------------------------
(* Properties of the story endpoints, checked under SpecStories *)

\* The StoryView documents of one user on one story
views_of(user_id, story_id) ==
    find(story_views, [user_id |-> user_id, story_id |-> story_id])

C6_StoredViewsCountMatches ==
    \A s \in DOMAIN stories :
        stories[s].views_count = Cardinality(find(story_views, [story_id |-> s]))

\* C7: get_active_stories, and get_stories_by_author for the author's stories,
\* return exactly the stored stories that are active and whose expires_at is
\* still ahead of now; expires_at is the creation time plus 24 hours.
C7_ListedIffActiveAndUnexpired ==
    /\ \A s \in DOMAIN stories :
            stories[s].expires_at = stories[s].created_at + StoryTTLHours
    /\ resp.op = "get_active_stories"
            => resp.data = {s \in DOMAIN stories :
                                stories[s].is_active /\ now < stories[s].expires_at}
    /\ resp.op = "get_stories_by_author"
            => resp.data = {s \in DOMAIN stories :
                                /\ stories[s].author_id = resp.user
                                /\ stories[s].is_active
                                /\ now < stories[s].expires_at}

\* A listing that returns one stored story and leaves out another
C7_Witness ==
    /\ resp.op = "get_active_stories"
    /\ resp.data # {}
    /\ DOMAIN stories \ resp.data # {}

\* C8: view_story and get_story_by_id of a stored story after its expires_at
\* fail with gone (410), whatever its is_active flag, and leave the story views
\* and the stories as they were.
C8_GoneAfterExpiry ==
    [][(/\ resp'.op \in {"view_story", "get_story_by_id"}
        /\ resp'.id \in DOMAIN stories
        /\ now > stories[resp'.id].expires_at)
        => (resp'.code = GONE /\ story_views' = story_views /\ stories' = stories)]_vars

\* A view of an expired story that the sweep has not flipped was answered gone
C8_Witness ==
    /\ resp.op = "view_story" /\ resp.code = GONE
    /\ resp.id \in DOMAIN stories
    /\ stories[resp.id].is_active
    /\ now > stories[resp.id].expires_at

\* C9: view_story and get_story_by_id succeed only for a story that is active
\* and whose expires_at has not passed.
C9_ServedOnlyWhileActive ==
    (resp.op \in {"view_story", "get_story_by_id"} /\ resp.code = OK)
        => (stories[resp.id].is_active /\ now <= stories[resp.id].expires_at)

\* C10: an expire_old_stories that directly follows another one returns 0 and
\* changes no story.
C10_SweepIdempotent ==
    [][(resp.op = "expire_old_stories" /\ resp'.op = "expire_old_stories")
        => (resp'.data.expired_count = 0 /\ stories' = stories)]_vars

\* The second of two sweeps in a row has returned 0, with a story past its
\* expires_at that is no longer active
C10_Witness ==
    /\ resp.op = "expire_old_stories"
    /\ resp.data.after_sweep
    /\ resp.data.expired_count = 0
    /\ \E s \in DOMAIN stories : stories[s].expires_at <= now /\ ~stories[s].is_active

\* C11: expire_old_stories sets is_active to false on exactly the stories that
\* are active and whose expires_at is not ahead of now, and returns how many
\* those are; it removes no story and no story view, and leaves every other
\* story, and every other field of the stories it flips, as they were.
C11_SweepIsSoftDelete ==
    [][resp'.op = "expire_old_stories" =>
        LET flipped == {s \in DOMAIN stories :
                            stories[s].is_active /\ stories[s].expires_at <= now}
        IN  /\ DOMAIN stories' = DOMAIN stories
            /\ story_views' = story_views
            /\ \A s \in DOMAIN stories :
                    stories'[s] = IF s \in flipped
                                  THEN [stories[s] EXCEPT !.is_active = FALSE]
                                  ELSE stories[s]
            /\ resp'.data.expired_count = Cardinality(flipped)]_vars

\* A sweep has flipped a viewed story and left an unexpired one active
C11_Witness ==
    /\ resp.op = "expire_old_stories"
    /\ resp.data.expired_count = 1
    /\ \E s \in DOMAIN stories :
            /\ ~stories[s].is_active /\ stories[s].expires_at <= now
            /\ find(story_views, [story_id |-> s]) # {}
    /\ \E s \in DOMAIN stories : stories[s].is_active /\ stories[s].expires_at > now

----------------------------------------------------------------------------
(* Properties of ownership, checked under SpecOwners *)

\* C12: update and delete of a stored post or story succeed only for the
\* caller whose id is the entity's author_id; for every other caller, another
\* organizer included, they fail with forbidden (403) and leave the entity
\* stored and unchanged.
C12_OnlyAuthorUpdatesAndDeletes ==
    [][/\ (resp'.op \in {"update_post", "delete_post"} /\ resp'.id \in DOMAIN posts)
            => IF posts[resp'.id].author_id = resp'.user
               THEN TRUE
               ELSE resp'.code = FORBIDDEN /\ posts' = posts
       /\ (resp'.op \in {"update_story", "delete_story"} /\ resp'.id \in DOMAIN stories)
            => IF stories[resp'.id].author_id = resp'.user
               THEN TRUE
               ELSE resp'.code = FORBIDDEN /\ stories' = stories
       /\ (resp'.op \in {"update_post", "delete_post"} /\ resp'.code = OK)
            => resp'.id \in DOMAIN posts /\ posts[resp'.id].author_id = resp'.user
       /\ (resp'.op \in {"update_story", "delete_story"} /\ resp'.code = OK)
            => resp'.id \in DOMAIN stories /\ stories[resp'.id].author_id = resp'.user]_vars

\* The second organizer was refused the delete of the first organizer's story,
\* which is still stored, while a post of its own is stored too
C12_Witness ==
    /\ resp.op = "delete_story" /\ resp.code = FORBIDDEN
    /\ resp.user = OtherOrganizer
    /\ resp.id \in DOMAIN stories
    /\ stories[resp.id].author_id = "o1"
    /\ \E p \in DOMAIN posts : posts[p].author_id = OtherOrganizer

----------------------------------------------------------------------------
(* Properties of registration and login, checked under SpecAuth *)

\* The stored users whose email equals `email` ignoring letter case
users_with_email(email) ==
    {u \in DOMAIN users : lower(users[u].email) = lower(email)}

\* C14: a register_user whose email equals, ignoring letter case, the email
\* of a stored user is rejected (400) and leaves the users as they were; no
\* two stored users have emails that are equal ignoring case.
C14_EmailUniqueIgnoringCase ==
    [][/\ (resp'.op = "register_user" /\ users_with_email(resp'.data.email) # {})
            => (resp'.code = BAD_REQUEST /\ users' = users)
       /\ \A u, v \in DOMAIN users' :
            u # v => lower(users'[u].email) # lower(users'[v].email)]_vars

\* A registration was rejected whose address differs only in letter case
\* from the stored address of a user registered before it
C14_Witness ==
    /\ resp.op = "register_user" /\ resp.code = BAD_REQUEST
    /\ \A u \in DOMAIN users : users[u].email # resp.data.email
    /\ \E u \in DOMAIN users \ (UserIds \cup {OtherOrganizer}) :
            lower(users[u].email) = lower(resp.data.email)

\* C18: login_user changes nothing; it succeeds, with a token for the user,
\* exactly when a stored user has the email (ignoring case), is active and the
\* password verifies against the stored hash; every other login fails with
\* unauthorized (401) and no token; and for a deactivated account the answer
\* is the one of the active test, whatever the password.
C18_LoginRequiresActiveAndPassword ==
    [][resp'.op = "login_user" =>
        LET known == users_with_email(resp'.data.email)
            admitted == {u \in known :
                            /\ users[u].is_active
                            /\ users[u].password_hash = hash_password(resp'.data.password)}
        IN  /\ users' = users
            /\ resp'.code = OK <=> admitted # {}
            /\ resp'.code = OK
                    => /\ resp'.data.access_token # None
                       /\ resp'.data.access_token.sub \in admitted
            /\ resp'.code # OK
                    => resp'.code = UNAUTHORIZED /\ resp'.data.access_token = None
            /\ (\E u \in known : ~users[u].is_active)
                    => resp'.data.detail = "Cuenta desactivada"]_vars

\* The login of a deactivated account with its correct password was refused
C18_Witness ==
    /\ resp.op = "login_user" /\ resp.code = UNAUTHORIZED
    /\ resp.data.detail = "Cuenta desactivada"
    /\ \E u \in users_with_email(resp.data.email) :
            /\ ~users[u].is_active
            /\ users[u].password_hash = hash_password(resp.data.password)

----------------------------------------------------------------------------
(* Properties of the profile, checked under SpecProfile *)

\* C19: update_user_profile of a stored user writes to each of full_name, bio,
\* allergies, profile_image_url and fcm_token the value the request provides
\* and leaves the fields the request does not provide, the email, the
\* password hash, the role, the active flag and every other user unchanged.
C19_ProfileSparseMerge ==
    [][(resp'.op = "update_user_profile" /\ resp'.user \in DOMAIN users) =>
        LET request == resp'.data.request
            u == resp'.user
        IN  /\ resp'.code = OK
            /\ DOMAIN users' = DOMAIN users
            /\ \A v \in DOMAIN users \ {u} : users'[v] = users[v]
            /\ \A f \in UserUpdateFields :
                    users'[u][f] = IF request[f] # None THEN request[f] ELSE users[u][f]
            /\ \A f \in {"email", "password_hash", "role", "is_active"} :
                    users'[u][f] = users[u][f]]_vars

\* An update that provided a bio and no device token wrote the bio and kept
\* the token stored before
C19_Witness ==
    /\ resp.op = "update_user_profile" /\ resp.code = OK
    /\ resp.data.request.bio # None
    /\ resp.data.request.fcm_token = None
    /\ users[resp.user].bio = resp.data.request.bio
    /\ users[resp.user].fcm_token = Str("token-1")

----------------------------------------------------------------------------
(* Properties of the access rules, checked under SpecAccess *)

\* The stored users that are active and have the role
active_with_role(role) ==
    {u \in DOMAIN users : users[u].role = role /\ users[u].is_active}

\* C15: create_post and create_story store a post or story only for an
\* author who is a stored, active organizer; for a stored user who is a
\* participant or a deactivated organizer they fail with forbidden (403), and
\* whenever they fail no post and no story is stored.
C15_OnlyActiveOrganizersCreate ==
    [][resp'.op \in {"create_post", "create_story"} =>
        /\ (posts' # posts \/ stories' # stories)
                => resp'.user \in active_with_role(ORGANIZER)
        /\ resp'.user \notin active_with_role(ORGANIZER)
                => (resp'.code # OK /\ posts' = posts /\ stories' = stories)
        /\ resp'.user \in DOMAIN users \ active_with_role(ORGANIZER)
                => resp'.code = FORBIDDEN]_vars

\* A deactivated organizer who has a post stored was refused a new story
C15_Witness ==
    /\ resp.op = "create_story" /\ resp.code = FORBIDDEN
    /\ users[resp.user].role = ORGANIZER
    /\ ~users[resp.user].is_active
    /\ \E p \in DOMAIN posts : posts[p].author_id = resp.user
    /\ stories = <<>>

\* C17: like_post, unlike_post and add_comment by a subject who is not a
\* stored, active participant are rejected and leave the likes, the comments
\* and the posts as they were.
C17_OnlyActiveParticipantsInteract ==
    [][(/\ resp'.op \in {"like_post", "unlike_post", "add_comment"}
        /\ resp'.user \notin active_with_role(PARTICIPANT))
        => (resp'.code # OK /\ likes' = likes /\ comments' = comments /\ posts' = posts)]_vars

\* A deactivated participant who has a Like stored was refused a comment on
\* the post
C17_Witness ==
    /\ resp.op = "add_comment" /\ resp.code = FORBIDDEN
    /\ resp.user \in DOMAIN users
    /\ users[resp.user].role = PARTICIPANT
    /\ ~users[resp.user].is_active
    /\ find(likes, [user_id |-> resp.user, post_id |-> resp.id]) # {}

\* C20: whatever the dispatcher of the notification does, create_post and
\* create_story by a stored, active organizer succeed and the new post or
\* story is stored.
C20_DispatchNeverAffectsCreation ==
    [][(/\ resp'.op \in {"create_post", "create_story"}
        /\ resp'.user \in active_with_role(ORGANIZER))
        => /\ resp'.code = OK
           /\ resp'.op = "create_post"
                => /\ resp'.id \in DOMAIN posts' \ DOMAIN posts
                   /\ posts'[resp'.id].author_id = resp'.user
           /\ resp'.op = "create_story"
                => /\ resp'.id \in DOMAIN stories' \ DOMAIN stories
                   /\ stories'[resp'.id].author_id = resp'.user]_vars

\* A post was created and is stored although the dispatcher raised on the
\* notification to a participant's device
C20_Witness ==
    /\ resp.op = "create_post" /\ resp.code = OK
    /\ resp.data.dispatch = "raises"
    /\ resp.data.sent # None
    /\ resp.data.sent.failure_count = 1
    /\ resp.id \in DOMAIN posts

----------------------------------------------------------------------------
(* The instant of expiry and the order of the checks, under SpecStories *)

\* C25: view_story, get_story_by_id and update_story treat a story as gone
\* from the instant now = expires_at on: one that succeeds has found a story
\* whose expires_at still lies after now.
C25_GoneFromExpiryInstant ==
    (/\ resp.op \in {"view_story", "get_story_by_id", "update_story"}
     /\ resp.code = OK)
        => now < stories[resp.id].expires_at

\* C26: update_story checks expiry before ownership: an update_story of a
\* stored story whose expires_at lies before now is answered with gone (410)
\* whoever the caller is.
C26_ExpiryCheckedBeforeOwnership ==
    [][(/\ resp'.op = "update_story"
        /\ resp'.id \in DOMAIN stories
        /\ now > stories[resp'.id].expires_at)
        => resp'.code = GONE]_vars

\* C28: expiry by time is irreversible: once a view_story or get_story_by_id
\* of a story has answered gone, no step changes the expires_at of that story
\* or moves the clock back, and a later view_story, get_story_by_id or
\* update_story of it is answered with gone or not-found. Stated for the
\* request that follows the gone answer.
C28_ExpiryIrreversible ==
    [][(resp.op \in {"view_story", "get_story_by_id"} /\ resp.code = GONE)
        => /\ now' >= now
           /\ resp.id \in DOMAIN stories' =>
                stories'[resp.id].expires_at = stories[resp.id].expires_at
           /\ (/\ resp'.op \in {"view_story", "get_story_by_id", "update_story"}
               /\ resp'.id = resp.id)
                => resp'.code \in {GONE, NOT_FOUND}]_vars

\* C29: a story that expire_old_stories has flipped to is_active false never
\* becomes active again. Stated for the step that follows the sweep: when the
\* stories stored with is_active false and expires_at <= now are exactly as
\* many as the sweep has just flipped (so that each of them was flipped by
\* it), no request leaves one of them stored with is_active true.
C29_FlippedStaysInactive ==
    [][LET flipped == {s \in DOMAIN stories :
                        ~stories[s].is_active /\ stories[s].expires_at <= now}
       IN  (/\ resp.op = "expire_old_stories"
            /\ resp.data.expired_count = Cardinality(flipped))
            => \A s \in flipped \cap DOMAIN stories' : ~stories'[s].is_active]_vars

----------------------------------------------------------------------------
(* Properties of the access-control gate, checked under SpecGate *)

\* C21: a request behind the gate whose bearer token does not verify (it is
\* no token, is signed with another key, or its exp lies before now) is
\* answered 401, and a request to a role-gated endpoint whose token verifies
\* but carries another role than the endpoint requires is answered 403; in
\* both cases no service operation runs and the store is left as it was.
C21_GateRejects ==
    [][\A t \in BearerTokens :
        LET verifies == t.claims # None /\ t.key = jwt_secret /\ now <= t.exp
            organizer_only == \E n \in Dispatch : route_create_post(t, n)
            participant_only == \E p \in PostIds : route_like_post(p, t)
            any_role == get_current_user_profile(t) \/ refresh_token(t)
        IN  /\ (~verifies /\ (organizer_only \/ participant_only \/ any_role))
                => (resp'.code = UNAUTHORIZED /\ store' = store)
            /\ (verifies /\ organizer_only /\ t.claims.role # ORGANIZER)
                => (resp'.code = FORBIDDEN /\ store' = store)
            /\ (verifies /\ participant_only /\ t.claims.role # PARTICIPANT)
                => (resp'.code = FORBIDDEN /\ store' = store)]_vars

\* The gate has refused the organizer's valid token on the participant-only
\* like endpoint while a post to like is stored
C21_Witness ==
    /\ resp.op = "like_post" /\ resp.code = FORBIDDEN /\ resp.user = "o1"
    /\ DOMAIN posts # {}
    /\ likes = <<>>

\* C27: POST /auth/refresh issues a new token only to a subject that is
\* stored and active.
C27_RefreshOnlyForActive ==
    (resp.op = "refresh_token" /\ resp.code = OK)
        => (resp.user \in DOMAIN users /\ users[resp.user].is_active)

----------------------------------------------------------------------------
(* Failures of the persistence layer, checked under SpecFaults *)

\* C22: a request during which a call to the database driver raised (a read,
\* an update, a counter increment, the sweep) is answered with the internal
\* error 500, never with not-found, an empty list, a count of 0 or success.
C22_DriverFailureIsInternalError ==
    (/\ resp.op \in {"create_story", "get_active_stories", "get_story_by_id",
                     "update_story", "expire_old_stories", "like_post"}
     /\ resp.data.driver = "raises")
        => resp.code = INTERNAL_SERVER_ERROR

----------------------------------------------------------------------------
(* Interleaved requests, checked under SpecLikeRace and SpecRegisterRace *)

\* C23: when two like_post requests of one participant for one post have
\* both made their pre-check before either inserted (each saw no Like of the
\* pair stored), both answer success and two Like documents of the pair are
\* stored.
C23_ConcurrentLikesBothInsert ==
    \A r1, r2 \in RequestIds :
        (/\ r1 # r2
         /\ inflight[r1].op = "like_post" /\ inflight[r2].op = "like_post"
         /\ inflight[r1].args = inflight[r2].args
         /\ inflight[r1].pc = "done" /\ inflight[r2].pc = "done"
         /\ inflight[r1].local # None /\ inflight[r2].local # None
         /\ inflight[r1].local.stored = 0 /\ inflight[r2].local.stored = 0)
            => /\ inflight[r1].code = OK /\ inflight[r2].code = OK
               /\ Cardinality(likes_of(inflight[r1].args.user_id,
                                       inflight[r1].args.post_id)) = 2

\* Both requests have answered after pre-checks that saw no Like
C23_Witness ==
    /\ inflight[1].op = "like_post" /\ inflight[2].op = "like_post"
    /\ inflight[1].args = inflight[2].args
    /\ inflight[1].pc = "done" /\ inflight[2].pc = "done"
    /\ inflight[1].local = [stored |-> 0] /\ inflight[2].local = [stored |-> 0]
    /\ inflight[1].code = OK /\ inflight[2].code = OK

\* C24: when two register_user requests with one e-mail address (ignoring
\* case) have both made their existence check before either inserted (each
\* saw no user of that address stored), both answer success, each with a
\* token for a user of its own, and two users with that address are stored.
C24_ConcurrentRegistrationsBothInsert ==
    \A r1, r2 \in RequestIds :
        (/\ r1 # r2
         /\ inflight[r1].op = "register_user" /\ inflight[r2].op = "register_user"
         /\ lower(inflight[r1].args.email) = lower(inflight[r2].args.email)
         /\ inflight[r1].pc = "done" /\ inflight[r2].pc = "done"
         /\ inflight[r1].local.stored = 0 /\ inflight[r2].local.stored = 0)
            => /\ inflight[r1].code = OK /\ inflight[r2].code = OK
               /\ inflight[r1].local.access_token # None
               /\ inflight[r2].local.access_token # None
               /\ inflight[r1].local.user_id # inflight[r2].local.user_id
               /\ Cardinality(users_with_email(lower(inflight[r1].args.email))) = 2

\* Both registrations of one address, spelled in two ways, have answered
\* after checks that saw no user of that address
C24_Witness ==
    /\ inflight[1].op = "register_user" /\ inflight[2].op = "register_user"
    /\ inflight[1].args.email = <<"a", "@", "x">>
    /\ inflight[2].args.email = <<"A", "@", "x">>
    /\ inflight[1].pc = "done" /\ inflight[2].pc = "done"
    /\ inflight[1].local.stored = 0 /\ inflight[2].local.stored = 0
    /\ inflight[1].code = OK /\ inflight[2].code = OK

\* C30: when two unlike_post requests of one participant for one post have
\* both looked the Like up while it was stored, both find it and answer
\* success, a request issues the decrement only after its own delete removed
\* the Like, and of two requests that found the same Like at most one does.
C30_ConcurrentUnlikesDecrementOnce ==
    \A r1, r2 \in RequestIds :
        (/\ r1 # r2
         /\ inflight[r1].op = "unlike_post" /\ inflight[r2].op = "unlike_post"
         /\ inflight[r1].args = inflight[r2].args
         /\ inflight[r1].pc = "done" /\ inflight[r2].pc = "done"
         /\ inflight[r1].local.stored > 0 /\ inflight[r2].local.stored > 0)
            => /\ inflight[r1].code = OK /\ inflight[r2].code = OK
               /\ inflight[r1].local.decremented => inflight[r1].local.deleted
               /\ inflight[r1].local.like_id = inflight[r2].local.like_id
                    => ~(inflight[r1].local.decremented /\ inflight[r2].local.decremented)

====
